---- MODULE Spec2Model ----
(***************************************************************************)
(* The smart-chatbot chat service: ChatService.process_chat and            *)
(* get_chat_history (app/services/chat_service.py), the inference client   *)
(* (app/core/openai_client.py), the HTTP endpoints (app/api/chat.py) and   *)
(* the MongoDB collection "chat_logs" they share.                          *)
(*                                                                         *)
(* Every request is a coroutine on one event loop: the code between two    *)
(* awaits runs atomically, and each await (find_one, the completion call,  *)
(* update_one) is a point where other requests interleave.  One action of  *)
(* the model is one such stretch, from the completion of an await to the   *)
(* issue of the next one.                                                  *)
(*                                                                         *)
(* Beside it, the research planner of Deep_Research: Agent.run and         *)
(* AgentResult.final_output_as (deep_research/agents.py) on the schema     *)
(* WebSearchPlan (deep_research/planner_agent.py).                         *)
(*                                                                         *)
(* Optional[T] is modelled as a sequence: None is <<>>, a value v is <<v>>.*)
(* A temperature is modelled in tenths (0.7 is 7, 2.0 is 20).              *)
(***************************************************************************)
EXTENDS Integers, Sequences, FiniteSets, TLC

VARIABLES
    store,      \* the collection chat_logs: its documents, in natural order
    now,        \* the clock datetime.utcnow() reads
    uuids,      \* how many uuid4 identifiers have been generated
    pc,         \* per request: where its coroutine stands
    req,        \* per request: the ChatRequest it carries
    sid,        \* per request: the local session_id of process_chat
    chat_log,   \* per request: what find_one returned in _prepare_messages
    prepared,   \* per request: the list _prepare_messages returned
    messages,   \* per request: the list object `messages` of process_chat
    call,       \* per request: the arguments of chat.completions.create
    response,   \* per request: response_data["content"]
    upd,        \* per request: the update_one call in flight
    reply,      \* per request: the dict process_chat returned
    status,     \* per request: the HTTP status of POST /chat
    lookup,     \* the GET /chat/history call being answered, if any
    appended,   \* history: every $push the store applied, in order
    plan        \* the research planner: its run and what came of it

vars == <<store, now, uuids, pc, req, sid, chat_log, prepared, messages, call,
          response, upd, reply, status, lookup, appended, plan>>

---------------------------------------------------------------------------
(* Bounds of the model *)

MaxReqs == 2

MaxPrior == 6

MaxPriorConc == 1

MaxSearches == 7

(* Constants of the program *)

HistoryWindow == 10

DefaultTemperature == 7

DefaultMaxTokens == 1000

MaxTemperature == 20

MaxMaxTokens == 4000

MinSearches == 3

MaxPlanSearches == 6

QueryLimit == 100

HTTP_200_OK == 200

HTTP_404_NOT_FOUND == 404

HTTP_500_INTERNAL_SERVER_ERROR == 500

---------------------------------------------------------------------------
(* Values *)

None == <<>>

Some(v) == <<v>>

Reqs == 1..MaxReqs

\* The text of request r's message, and of the completion returned for it.
Msg(r) == "m" \o ToString(r)

Reply(r) == "a" \o ToString(r)

\* str(uuid.uuid4()): the n-th identifier generated, distinct from every other
\* and from every identifier a caller made up.
Uuid(n) == "u" \o ToString(n)

\* Python truthiness of an Optional[str], Optional[list] and Optional[number].
TruthyStr(o) == o # None /\ o[1] # ""

TruthyList(o) == o # None /\ Len(o[1]) > 0

TruthyNum(o) == o # None /\ o[1] # 0

\* Python's `a or b` on an optional number.
PyOr(o, default) == IF TruthyNum(o) THEN o[1] ELSE default

\* s[:n] in place of s[-n:]: the first n messages, not the last n.
PySliceFirst(s, n) == SubSeq(s, 1, IF Len(s) > n THEN n ELSE Len(s))

\* Python's s[-n:]
PySliceLast(s, n) == SubSeq(s, IF Len(s) > n THEN Len(s) - n + 1 ELSE 1, Len(s))

Message(role, content, timestamp) ==
    [role |-> role, content |-> content, timestamp |-> timestamp]

RoleContent(m) == [role |-> m.role, content |-> m.content]

DefaultSystemPrompt == [role |-> "system", content |-> "guidelines"]

---------------------------------------------------------------------------
(* The collection *)

Matching(docs, s) == {i \in 1..Len(docs) : docs[i].session_id = s}

Min(S) == CHOOSE x \in S : \A y \in S : x <= y

\* collection.find_one({"session_id": s}): the first matching document
FindOne(docs, s) ==
    IF Matching(docs, s) = {} THEN None ELSE Some(docs[Min(Matching(docs, s))])

\* $set of the messages in place of $push: the new messages replace the log.
ApplyUpdateOverwrite(doc, u) ==
    [doc EXCEPT !.messages = u.push, !.updated_at = u.updated_at]

\* $push with $position 0: the new messages go in front of the log.
ApplyUpdatePrepend(doc, u) ==
    [doc EXCEPT !.messages = u.push \o @, !.updated_at = u.updated_at]

\* created_at under $set in place of $setOnInsert: every append rewrites it.
ApplyUpdateSetCreated(doc, u) ==
    [doc EXCEPT !.messages = @ \o u.push, !.updated_at = u.updated_at,
                !.created_at = u.created_at]

\* The $push / $set part of update_one applied to one document.
ApplyUpdate(doc, u) ==
    [doc EXCEPT !.messages = @ \o u.push, !.updated_at = u.updated_at]

\* The document an upsert inserts: the filter's fields, $push, $set, $setOnInsert.
InsertedDoc(u) ==
    [session_id |-> u.session_id, messages |-> u.push,
     created_at |-> u.created_at, updated_at |-> u.updated_at]

\* The store after n earlier successful exchanges on session "s1".
PriorMessages(n) ==
    [i \in 1..(2 * n) |->
        Message(IF i % 2 = 1 THEN "user" ELSE "assistant",
                "h" \o ToString(i),
                5 * ((i - 1) \div 2) + ((i - 1) % 2))]

PriorStore(n) ==
    IF n = 0 THEN <<>>
    ELSE <<[session_id |-> "s1", messages |-> PriorMessages(n),
            created_at |-> 3, updated_at |-> 5 * (n - 1) + 2]>>

PriorAppended(n) ==
    [k \in 1..n |-> [session_id |-> "s1", req |-> 0,
                     user |-> "h" \o ToString(2 * k - 1),
                     assistant |-> "h" \o ToString(2 * k)]]

---------------------------------------------------------------------------
(* ChatService._prepare_messages and OpenAIClient._enhance_prompts *)

PrepareMessages(message, log, context, system_prompt) ==
    LET sys  == IF TruthyStr(system_prompt)
                THEN <<[role |-> "system", content |-> system_prompt[1]]>>
                ELSE <<>>
        last == IF log # None
                THEN PySliceLast(log[1].messages, HistoryWindow)
                ELSE <<>>
        hist == [i \in 1..Len(last) |-> RoleContent(last[i])]
        ctx  == IF TruthyList(context) THEN context[1] ELSE <<>>
    IN  sys \o hist \o ctx \o <<[role |-> "user", content |-> message]>>

\* The default system message inserted whatever the first message is.
EnhancePromptsAlways(msgs) == <<DefaultSystemPrompt>> \o msgs

EnhancePrompts(msgs) ==
    IF Len(msgs) = 0 \/ msgs[1].role # "system"
    THEN <<DefaultSystemPrompt>> \o msgs
    ELSE msgs

\* The keyword arguments generate_response gives chat.completions.create.
CreateArgs(msgs, temperature, max_tokens) ==
    [messages |-> msgs,
     temperature |-> PyOr(temperature, DefaultTemperature),
     max_tokens |-> PyOr(max_tokens, DefaultMaxTokens)]

\* A session identifier generated whether or not the request carries one.
ResolveSessionAlwaysNew(session_id, n) == Uuid(n + 1)

\* process_chat, lines 24-25
ResolveSession(session_id, n) ==
    IF ~TruthyStr(session_id) THEN Uuid(n + 1) ELSE session_id[1]

\* new_messages with the assistant's reply before the user's message.
UpdateCallReversed(s, user_message, assistant_response, t) ==
    [filter |-> s,
     push |-> <<Message("assistant", assistant_response, t[1]),
                Message("user", user_message, t[2])>>,
     updated_at |-> t[3],
     created_at |-> t[4],
     session_id |-> s]

\* The four readings datetime.utcnow() gives _save_chat_log when the first is
\* t: none is earlier than the one before it, and two that follow each other
\* can be the same microsecond.
ClockReadings(t) ==
    {<<t, t + a, t + a + b, t + a + b + c>> :
        a \in {0, 1}, b \in {0, 1}, c \in {0, 1}}

\* _save_chat_log up to the await: the two Messages and the update document,
\* with the readings t of the clock in the order the code takes them.
UpdateCall(s, user_message, assistant_response, t) ==
    [filter |-> s,
     push |-> <<Message("user", user_message, t[1]),
                Message("assistant", assistant_response, t[2])>>,
     updated_at |-> t[3],
     created_at |-> t[4],
     session_id |-> s]

\* What process_chat returns, lines 42-47
ChatResult(content, s, t) ==
    [response |-> content, session_id |-> s, timestamp |-> t]

---------------------------------------------------------------------------
(* Requests *)

NoRequest ==
    [session_id |-> None, message |-> "", context |-> None,
     system_prompt |-> None, temperature |-> None, max_tokens |-> None]

ChatRequest(m, s, c, p, t, k) ==
    [session_id |-> s, message |-> m, context |-> c,
     system_prompt |-> p, temperature |-> t, max_tokens |-> k]

Context2 == <<[role |-> "user", content |-> "c1"],
              [role |-> "assistant", content |-> "c2"]>>

\* A context whose first pair is a system-role message.
ContextSys == <<[role |-> "system", content |-> "cs"]>>

\* Identifiers a caller can send: made up, or read from an earlier reply.
Echoed == {reply[r][1].session_id : r \in {q \in Reqs : reply[q] # None}}

\* Requests that differ in the session they name.
SessionInputs(r) ==
    {ChatRequest(Msg(r), s, None, None, None, None) :
        s \in {None, Some(""), Some("s1")} \cup {Some(e) : e \in Echoed}}

\* Requests without session_id, on session "s1" and on a session an earlier
\* reply named.
ConcInputs(r) ==
    {ChatRequest(Msg(r), s, None, None, None, None) :
        s \in {None, Some("s1")} \cup {Some(e) : e \in Echoed}}

\* Requests on session "s1", made up or read from an earlier reply.
LookupInputs(r) ==
    {ChatRequest(Msg(r), Some(s), None, None, None, None) :
        s \in {"s1"} \cup Echoed}

\* Requests on session "s1" that differ in system_prompt and context.
PromptInputs(r) ==
    {ChatRequest(Msg(r), Some("s1"), c, p, None, None) :
        c \in {None, Some(<<>>), Some(Context2)},
        p \in {None, Some(""), Some("sp")}}

\* Requests on session "s1" whose conversation begins with a system message
\* (from system_prompt, or from the context when the session has no log) or
\* with another message.
EnhanceInputs(r) ==
    {ChatRequest(Msg(r), Some("s1"), c, p, None, None) :
        c \in {None, Some(ContextSys)},
        p \in {None, Some(""), Some("sp")}}

\* Requests on session "s1" that differ in temperature and max_tokens.
ParamInputs(r) ==
    {ChatRequest(Msg(r), Some("s1"), None, None, t, k) :
        t \in {None, Some(0), Some(MaxTemperature)},
        k \in {None, Some(1), Some(MaxMaxTokens)}}

InFlight(r) == pc[r] \in {"find", "generate", "update", "insert"}

Quiet == \A r \in Reqs : ~InFlight(r)

---------------------------------------------------------------------------
(* The research planner: planner_agent, Agent.run, AgentResult *)

\* What the completion of the planner's call can be: no content, text without
\* a {...} span, text whose {...} span is not JSON, or text whose {...} span
\* is a JSON object.  Of an object only the key "searches" matters: absent
\* (None) or a list of entries.  An entry is given by the number of characters
\* of its query; 0 stands for an entry without a query string.
PlanItem(n) == [query |-> n, reason |-> "r"]

ItemKinds == {PlanItem(0), PlanItem(1), PlanItem(QueryLimit),
              PlanItem(QueryLimit + 1)}

SearchLists == UNION {[1..n -> ItemKinds] : n \in 0..MaxSearches}

ModelOutput(kind, searches) == [kind |-> kind, searches |-> searches]

ModelOutputs ==
    {ModelOutput(k, None) : k \in {"none", "prose", "broken", "object"}}
    \cup {ModelOutput("object", Some(l)) : l \in SearchLists}

\* An outcome of a call: a value returned, or an exception raised.
Returned(type, searches) == [kind |-> "returned", searches |-> searches,
                             type |-> type]

Raised(error) == [kind |-> "raised", searches |-> None, type |-> error]

\* WebSearchItem(**entry): query and reason must be strings.
ValidItem(item) == item.query > 0

\* WebSearchPlan(**data): `searches` is required and must be a list of
\* WebSearchItem; nothing else is validated.
WebSearchPlan(searches) ==
    IF searches = None THEN Raised("ValidationError")
    ELSE IF \A i \in 1..Len(searches[1]) : ValidItem(searches[1][i])
         THEN Returned("WebSearchPlan", searches)
         ELSE Raised("ValidationError")

\* Agent.run after the completion arrived: the {...} span of the text is
\* parsed; a dict if that works, else the text itself (None has no find(),
\* the bare except swallows that too).
AgentRunOutput(out) ==
    IF out.kind = "object" THEN Returned("dict", out.searches)
    ELSE IF out.kind = "none" THEN Returned("NoneType", None)
    ELSE Returned("str", None)

\* AgentResult.final_output_as(WebSearchPlan)
FinalOutputAs(final) ==
    IF final.type = "WebSearchPlan" THEN final
    ELSE IF final.type = "dict" THEN WebSearchPlan(final.searches)
    ELSE IF final.type = "str"
         THEN \* json.loads or WebSearchPlan(**data) raises: output_type()
              WebSearchPlan(None)
    ELSE final

\* `from .agents import Agent, ModelSettings`: agents.py does not compile (a
\* stray character follows the docstring of Agent.run), so the import of
\* planner_agent raises and there is no planner to run.
ImportAgents == Raised("SyntaxError")

\* What plan(query) comes to when the model's completion would be `out`:
\* nothing can be run unless the module loads; then Agent.run and
\* final_output_as(WebSearchPlan).
PlanOf(out) ==
    IF ImportAgents.kind = "raised" THEN ImportAgents
    ELSE FinalOutputAs(AgentRunOutput(out))

PlanIdle == [stage |-> "idle", output |-> ModelOutput("none", None),
             result |-> Returned("NoneType", None)]

\* A plan is asked for; `out` is what the model would answer.
PlannerRun(out) ==
    /\ plan.stage = "idle"
    /\ plan' = [stage |-> "ended", output |-> out, result |-> PlanOf(out)]
    /\ UNCHANGED <<store, now, uuids, pc, req, sid, chat_log, prepared,
                   messages, call, response, upd, reply, status, lookup,
                   appended>>

---------------------------------------------------------------------------
(* Initial states *)

InitWith(n) ==
    /\ store = PriorStore(n)
    /\ appended = PriorAppended(n)
    /\ now = 5 * n
    /\ uuids = 0
    /\ pc = [r \in Reqs |-> "idle"]
    /\ req = [r \in Reqs |-> NoRequest]
    /\ sid = [r \in Reqs |-> ""]
    /\ chat_log = [r \in Reqs |-> None]
    /\ prepared = [r \in Reqs |-> <<>>]
    /\ messages = [r \in Reqs |-> <<>>]
    /\ call = [r \in Reqs |-> None]
    /\ response = [r \in Reqs |-> None]
    /\ upd = [r \in Reqs |-> None]
    /\ reply = [r \in Reqs |-> None]
    /\ status = [r \in Reqs |-> 0]
    /\ lookup = None
    /\ plan = PlanIdle

Init == \E n \in 0..MaxPriorConc : InitWith(n)

\* A session with no log yet, with exactly HistoryWindow messages, with more.
InitSeq == \E n \in {0, MaxPrior - 1, MaxPrior} : InitWith(n)

---------------------------------------------------------------------------
(* POST /chat *)

\* The request arrives: process_chat resolves the session and
\* _prepare_messages runs up to its await of find_one.
Chat(r, in) ==
    /\ pc[r] = "idle"
    /\ IF r = 1 THEN TRUE ELSE pc[r - 1] # "idle"
    /\ req' = [req EXCEPT ![r] = in]
    /\ sid' = [sid EXCEPT ![r] = ResolveSession(in.session_id, uuids)]
    /\ uuids' = IF ~TruthyStr(in.session_id) THEN uuids + 1 ELSE uuids
    /\ pc' = [pc EXCEPT ![r] = "find"]
    /\ UNCHANGED plan
    /\ UNCHANGED <<store, now, chat_log, prepared, messages, call, response,
                   upd, reply, status, lookup, appended>>

\* The endpoint's except clause: any exception becomes HTTP 500.
Raise(r) ==
    /\ pc' = [pc EXCEPT ![r] = "failed"]
    /\ status' = [status EXCEPT ![r] = HTTP_500_INTERNAL_SERVER_ERROR]

\* find_one answers: _prepare_messages finishes, generate_response enhances
\* the list it was given (in place) and awaits the completion.
FindOneReturns(r) ==
    /\ pc[r] = "find"
    /\ LET log == FindOne(store, sid[r])
           msgs == PrepareMessages(req[r].message, log, req[r].context,
                                   req[r].system_prompt)
           sent == EnhancePrompts(msgs)
       IN  /\ chat_log' = [chat_log EXCEPT ![r] = log]
           /\ prepared' = [prepared EXCEPT ![r] = msgs]
           /\ messages' = [messages EXCEPT ![r] = sent]
           /\ call' = [call EXCEPT ![r] =
                  Some(CreateArgs(sent, req[r].temperature, req[r].max_tokens))]
    /\ pc' = [pc EXCEPT ![r] = "generate"]
    /\ UNCHANGED plan
    /\ UNCHANGED <<store, now, uuids, req, sid, response, upd, reply, status,
                   lookup, appended>>

FindOneFails(r) ==
    /\ pc[r] = "find"
    /\ Raise(r)
    /\ UNCHANGED plan
    /\ UNCHANGED <<store, now, uuids, req, sid, chat_log, prepared, messages,
                   call, response, upd, reply, lookup, appended>>

\* The completion arrives: _save_chat_log builds its update, reading the
\* clock as t, and awaits it.
GenerateReturns(r, t) ==
    /\ pc[r] = "generate"
    /\ t \in ClockReadings(now)
    /\ response' = [response EXCEPT ![r] = Some(Reply(r))]
    /\ upd' = [upd EXCEPT ![r] =
                  Some(UpdateCall(sid[r], req[r].message, Reply(r), t))]
    /\ now' = t[4] + 1
    /\ pc' = [pc EXCEPT ![r] = "update"]
    /\ UNCHANGED plan
    /\ UNCHANGED <<store, uuids, req, sid, chat_log, prepared, messages, call,
                   reply, status, lookup, appended>>

\* The completion call raises (network, quota, a response without choices).
GenerateFails(r) ==
    /\ pc[r] = "generate"
    /\ Raise(r)
    /\ UNCHANGED plan
    /\ UNCHANGED <<store, now, uuids, req, sid, chat_log, prepared, messages,
                   call, response, upd, reply, lookup, appended>>

\* process_chat builds its dict (one more reading of the clock) and the
\* endpoint answers 200.
Return(r) ==
    /\ reply' = [reply EXCEPT ![r] =
                    Some(ChatResult(response[r][1], sid[r], now))]
    /\ now' = now + 1
    /\ status' = [status EXCEPT ![r] = HTTP_200_OK]
    /\ pc' = [pc EXCEPT ![r] = "done"]

\* The store has applied the update_one of request r.
Written(r) == \E k \in 1..Len(appended) : appended[k].req = r

\* The store finds a document of the session: $push and $set on it.  The
\* request still waits for the acknowledgement.
UpdateOneMatch(r) ==
    /\ pc[r] = "update"
    /\ ~Written(r)
    /\ Matching(store, upd[r][1].filter) # {}
    /\ LET i == Min(Matching(store, upd[r][1].filter))
       IN  store' = [store EXCEPT ![i] = ApplyUpdate(@, upd[r][1])]
    /\ appended' = Append(appended,
           [session_id |-> upd[r][1].filter, req |-> r,
            user |-> upd[r][1].push[1].content,
            assistant |-> upd[r][1].push[2].content])
    /\ UNCHANGED plan
    /\ UNCHANGED <<now, uuids, pc, req, sid, chat_log, prepared, messages,
                   call, response, upd, reply, status, lookup>>

\* The store finds no document of the session: the upsert will insert one.
UpdateOneNoMatch(r) ==
    /\ pc[r] = "update"
    /\ ~Written(r)
    /\ Matching(store, upd[r][1].filter) = {}
    /\ pc' = [pc EXCEPT ![r] = "insert"]
    /\ UNCHANGED plan
    /\ UNCHANGED <<store, now, uuids, req, sid, chat_log, prepared, messages,
                   call, response, upd, reply, status, lookup, appended>>

\* The upsert inserts its document; the collection has no unique index, so
\* nothing is checked again here.
UpdateOneInsert(r) ==
    /\ pc[r] = "insert"
    /\ ~Written(r)
    /\ store' = Append(store, InsertedDoc(upd[r][1]))
    /\ appended' = Append(appended,
           [session_id |-> upd[r][1].session_id, req |-> r,
            user |-> upd[r][1].push[1].content,
            assistant |-> upd[r][1].push[2].content])
    /\ UNCHANGED plan
    /\ UNCHANGED <<now, uuids, pc, req, sid, chat_log, prepared, messages,
                   call, response, upd, reply, status, lookup>>

\* The acknowledgement arrives: update_one returns, then _save_chat_log,
\* process_chat returns its dict and the endpoint answers 200.
UpdateOneReturns(r) ==
    /\ pc[r] \in {"update", "insert"}
    /\ Written(r)
    /\ Return(r)
    /\ UNCHANGED plan
    /\ UNCHANGED <<store, uuids, req, sid, chat_log, prepared, messages, call,
                   response, upd, lookup, appended>>

\* update_one raises, before the store applied the write or after it (the
\* acknowledgement is lost): nothing is undone.
UpdateOneFails(r) ==
    /\ pc[r] \in {"update", "insert"}
    /\ Raise(r)
    /\ UNCHANGED plan
    /\ UNCHANGED <<store, now, uuids, req, sid, chat_log, prepared, messages,
                   call, response, upd, reply, lookup, appended>>

---------------------------------------------------------------------------
(* GET /chat/history/{session_id} *)

\* An empty ChatLog in place of None for a session without document.
GetChatHistoryEmpty(docs, s) ==
    LET log == FindOne(docs, s)
    IN  IF log # None THEN log
        ELSE Some([session_id |-> s, messages |-> <<>>,
                   created_at |-> 0, updated_at |-> 0])

\* ChatService.get_chat_history
GetChatHistory(docs, s) ==
    LET log == FindOne(docs, s)
    IN  IF log # None THEN log ELSE None

\* The endpoint get_history up to its await: the store evaluates find_one.
\* No status yet (0): the endpoint waits for the result.
GetHistory(s) ==
    /\ lookup = None
    /\ lookup' = Some([session_id |-> s,
                       history |-> GetChatHistory(store, s),
                       status |-> 0])
    /\ UNCHANGED plan
    /\ UNCHANGED <<store, now, uuids, pc, req, sid, chat_log, prepared,
                   messages, call, response, upd, reply, status, appended>>

\* get_chat_history returns what find_one gave and the endpoint answers:
\* 404 for None, else the log.
GetHistoryReturns ==
    /\ lookup # None
    /\ lookup[1].status = 0
    /\ lookup' = Some([lookup[1] EXCEPT !.status =
                          IF lookup[1].history = None
                          THEN HTTP_404_NOT_FOUND
                          ELSE HTTP_200_OK])
    /\ UNCHANGED plan
    /\ UNCHANGED <<store, now, uuids, pc, req, sid, chat_log, prepared,
                   messages, call, response, upd, reply, status, appended>>

\* The lookup's find_one raises: get_history catches nothing, the server
\* answers 500.
GetHistoryFails ==
    /\ lookup # None
    /\ lookup[1].status = 0
    /\ lookup' = Some([lookup[1] EXCEPT
                          !.history = None,
                          !.status = HTTP_500_INTERNAL_SERVER_ERROR])
    /\ UNCHANGED plan
    /\ UNCHANGED <<store, now, uuids, pc, req, sid, chat_log, prepared,
                   messages, call, response, upd, reply, status, appended>>

\* The answer has been read by the caller.
HistoryRead ==
    /\ lookup # None
    /\ lookup[1].status # 0
    /\ lookup' = None
    /\ UNCHANGED plan
    /\ UNCHANGED <<store, now, uuids, pc, req, sid, chat_log, prepared,
                   messages, call, response, upd, reply, status, appended>>

LookupIds == {"s0", "s1"} \cup Echoed

\* The answer of a lookup, once the endpoint has given it.
Answered == lookup # None /\ lookup[1].status # 0

---------------------------------------------------------------------------
(* Specifications *)

\* Spec runs the chat requests concurrently, on a new session, on "s1" or on
\* a session a reply named.  SpecConc is Spec with two requests sent.
\* SpecClock runs requests on "s1", overlapping two at a time, on a
\* collection that is empty at first.  SpecLookup runs chat requests on "s1"
\* and a history lookup concurrently.  SpecSeq, SpecPrompt, SpecParams and
\* SpecEnhance are one caller that sends its calls one after the other (a
\* call is sent only when none is in flight); they vary the session, the
\* system_prompt and context, and the temperature and max_tokens; the
\* caller of SpecSeq also looks up histories between its chat requests.
\* Every specification but Spec and SpecClock stops at the second chat
\* request (SentAtMostOne): what it varies is the input, the stored
\* history and the lookups.
\* The clock is read at microsecond resolution: a reading is never earlier
\* than the one before it, and two readings of one call that follow each
\* other can be equal (ClockReadings); every specification takes every such
\* clock.
\* An update_one can raise before the store applied the write or after it.
\* A find_one can raise in a chat request and in a lookup.
\* Two upserts on a session without document may both find nothing before
\* either inserts (UpdateOneNoMatch, then UpdateOneInsert): the collection
\* has no unique index on session_id (connect_to_mongo creates none).

AwaitSteps ==
    \/ \E r \in Reqs : FindOneReturns(r)
    \/ \E r \in Reqs : FindOneFails(r)
    \/ \E r \in Reqs : GenerateFails(r)
    \/ \E r \in Reqs : UpdateOneMatch(r)
    \/ \E r \in Reqs : UpdateOneNoMatch(r)
    \/ \E r \in Reqs : UpdateOneInsert(r)
    \/ \E r \in Reqs : UpdateOneReturns(r)
    \/ \E r \in Reqs : UpdateOneFails(r)

\* The steps of the requests in flight, on any clock.
ChatSteps ==
    \/ AwaitSteps
    \/ \E r \in Reqs : \E t \in ClockReadings(now) : GenerateReturns(r, t)

\* A lookup is sent at any time.
Steps ==
    \/ ChatSteps
    \/ \E s \in LookupIds : GetHistory(s)
    \/ GetHistoryReturns
    \/ GetHistoryFails
    \/ HistoryRead

\* The one caller sends a lookup when no chat request is in flight.
StepsSeq ==
    \/ ChatSteps
    \/ \E s \in LookupIds : Quiet /\ GetHistory(s)
    \/ GetHistoryReturns
    \/ GetHistoryFails
    \/ HistoryRead

\* The one caller sends a chat request when no call is in flight.
Idle == Quiet /\ lookup = None

\* Requests arrive at any time and run concurrently.
Next ==
    \/ \E r \in Reqs : \E in \in ConcInputs(r) : Chat(r, in)
    \/ ChatSteps

Spec == Init /\ [][Next]_vars

\* No chat request, or one, has been sent.
SentAtMostOne == Cardinality({q \in Reqs : pc[q] # "idle"}) <= 1

\* Two requests arrive at any time and run concurrently.
NextConc ==
    \/ \E r \in Reqs : \E in \in ConcInputs(r) : SentAtMostOne /\ Chat(r, in)
    \/ ChatSteps

SpecConc == Init /\ [][NextConc]_vars

\* No request, or one, is in flight.
OneInFlight == \E q \in Reqs : \A p \in Reqs \ {q} : ~InFlight(p)

\* Requests on one session, new at first, overlapping two at a time, on any
\* clock.
NextClock ==
    \/ \E r \in Reqs : \E in \in LookupInputs(r) : OneInFlight /\ Chat(r, in)
    \/ ChatSteps

SpecClock == InitWith(0) /\ [][NextClock]_vars

\* Requests and lookups arrive at any time and run concurrently.
NextLookup ==
    \/ \E r \in Reqs : \E in \in LookupInputs(r) :
          SentAtMostOne /\ Chat(r, in)
    \/ Steps

SpecLookup == Init /\ [][NextLookup]_vars

\* One caller sends its requests one after the other.
NextSeq ==
    \/ \E r \in Reqs : \E in \in SessionInputs(r) :
          (Idle /\ SentAtMostOne) /\ Chat(r, in)
    \/ StepsSeq

SpecSeq == InitSeq /\ [][NextSeq]_vars

NextPrompt ==
    \/ \E r \in Reqs : \E in \in PromptInputs(r) :
          (Quiet /\ SentAtMostOne) /\ Chat(r, in)
    \/ ChatSteps

SpecPrompt == InitSeq /\ [][NextPrompt]_vars

NextParams ==
    \/ \E r \in Reqs : \E in \in ParamInputs(r) :
          (Quiet /\ SentAtMostOne) /\ Chat(r, in)
    \/ ChatSteps

SpecParams == Init /\ [][NextParams]_vars

NextEnhance ==
    \/ \E r \in Reqs : \E in \in EnhanceInputs(r) :
          (Quiet /\ SentAtMostOne) /\ Chat(r, in)
    \/ ChatSteps

SpecEnhance == Init /\ [][NextEnhance]_vars

\* The planner alone: one plan asked for, on any completion.
NextPlanner == \E out \in ModelOutputs : PlannerRun(out)

SpecPlanner == InitWith(0) /\ [][NextPlanner]_vars

---------------------------------------------------------------------------
(* Helpers of the properties *)

IsPrefix(a, b) == Len(a) <= Len(b) /\ \A i \in 1..Len(a) : a[i] = b[i]

Started(r) == pc[r] # "idle"

Done(r) == pc[r] = "done"

Failed(r) == pc[r] = "failed"

\* Every message stored under session s, document after document.
RECURSIVE Concat(_)
Concat(ss) == IF Len(ss) = 0 THEN <<>> ELSE Head(ss) \o Concat(Tail(ss))

RECURSIVE Select(_, _)
Select(docs, s) ==
    IF Len(docs) = 0 THEN <<>>
    ELSE (IF Head(docs).session_id = s THEN <<Head(docs).messages>> ELSE <<>>)
         \o Select(Tail(docs), s)

StoredIn(docs, s) == Concat(Select(docs, s))

StoredMessages(s) == StoredIn(store, s)

RolesContents(ms) == [i \in 1..Len(ms) |-> RoleContent(ms[i])]

\* The exchanges stored before the first request of a behaviour.
PriorCount(s) ==
    Cardinality({k \in 1..Len(appended) :
                    appended[k].req = 0 /\ appended[k].session_id = s})

\* The requests answered 200 on session s.
Served(s) == {r \in Reqs : Done(r) /\ sid[r] = s}

Exchange(r) == <<[role |-> "user", content |-> req[r].message],
                 [role |-> "assistant", content |-> reply[r][1].response]>>

\* The exchanges of the requests of S, in the order the requests were sent.
RECURSIVE Exchanges(_)
Exchanges(S) ==
    IF S = {} THEN <<>>
    ELSE LET r == Min(S) IN Exchange(r) \o Exchanges(S \ {r})

Contents(ms) == {ms[i].content : i \in 1..Len(ms)}

InStore(r) ==
    \E i \in 1..Len(store) :
        Contents(store[i].messages) \cap {Msg(r), Reply(r)} # {}

SessionIds ==
    {"", "s0", "s1"} \cup {Uuid(k) : k \in 1..uuids}

---------------------------------------------------------------------------
(* C1: the conversation _prepare_messages assembles *)

\* The conversation the claim describes for request r, read off the request
\* and the stored log of its session; `sys` says when a system_prompt counts
\* as supplied.
ClaimedConversation(r, sys) ==
    LET stored == StoredMessages(sid[r])
        k      == IF Len(stored) < HistoryWindow THEN Len(stored)
                  ELSE HistoryWindow
        p      == req[r].system_prompt
        c      == req[r].context
    IN  (IF sys THEN <<[role |-> "system", content |-> p[1]]>> ELSE <<>>)
        \o [i \in 1..k |-> RoleContent(stored[Len(stored) - k + i])]
        \o (IF c = None THEN <<>> ELSE c[1])
        \o <<[role |-> "user", content |-> req[r].message]>>

\* Request r has its conversation and the store has not yet taken its append.
Assembled(r) == pc[r] \in {"generate", "update", "insert"} /\ ~Written(r)

\* C1 as amended: for every chat request, the conversation process_chat
\* assembles is the system_prompt as one system message if one was supplied
\* and is not the empty string, then the last min(10, stored length) stored
\* messages of the session, oldest first, with their roles, then the context
\* pairs in the order given, then the new message with role user, last.
C1_ConversationOrder ==
    \A r \in Reqs :
        Assembled(r) =>
            prepared[r] =
                ClaimedConversation(r, req[r].system_prompt \notin {None, Some("")})

\* C1 as written: a supplied system_prompt, whatever its value, is the first
\* message of the conversation.
C1_Original ==
    \A r \in Reqs :
        Assembled(r) =>
            prepared[r] = ClaimedConversation(r, req[r].system_prompt # None)

\* A request with a system prompt and a context on a session that holds more
\* than ten messages: 1 + 10 + 2 + 1 messages are assembled.
C1_Witness ==
    \E r \in Reqs :
        /\ Assembled(r)
        /\ Len(StoredMessages(sid[r])) > HistoryWindow
        /\ req[r].system_prompt = Some("sp")
        /\ req[r].context = Some(Context2)
        /\ Len(prepared[r]) = HistoryWindow + 4

---------------------------------------------------------------------------
(* C2: N calls, one after the other, on one session *)

\* The requests on session s that have ended, answered 200 or 500.
Called(s) == {r \in Reqs : (Done(r) \/ Failed(r)) /\ sid[r] = s}

\* The requests on session s whose update_one the store applied.
Applied(s) == {r \in Reqs : Written(r) /\ sid[r] = s}

\* The user message of request r and the completion it got.
Appends(r) == <<[role |-> "user", content |-> req[r].message],
                [role |-> "assistant", content |-> response[r][1]]>>

\* The exchanges of the requests of S, in the order the requests were sent.
RECURSIVE AppendsOf(_)
AppendsOf(S) ==
    IF S = {} THEN <<>>
    ELSE LET r == Min(S) IN Appends(r) \o AppendsOf(S \ {r})

\* The claim for the calls counted by N (the set of requests Calls(s)):
\* once the calls sent one after the other have ended, session s holds
\* 2N messages after the 2 * PriorCount of the exchanges stored before, and
\* get_chat_history returns them in the order the calls appended them.
TwoPerCall(Calls(_)) ==
    /\ \A s \in SessionIds :
          Quiet => Len(StoredMessages(s))
                      = 2 * (PriorCount(s) + Cardinality(Calls(s)))
    /\ (Answered /\ lookup[1].status # HTTP_500_INTERNAL_SERVER_ERROR) =>
          LET s == lookup[1].session_id
              h == lookup[1].history
          IN  /\ h = None <=> PriorCount(s) + Cardinality(Calls(s)) = 0
              /\ h # None =>
                    RolesContents(h[1].messages)
                        = RolesContents(PriorMessages(PriorCount(s)))
                          \o AppendsOf(Calls(s))

\* C2 as stated: N counts every chat call made on the session; after the
\* Nth the session holds 2N messages and its history is user_1,
\* assistant_1, ..., user_N, assistant_N.
C2_Original == TwoPerCall(Called)

\* C2: N counts the chat calls on the session that came to their append
\* (find_one and the completion call did not fail, and update_one did not
\* fail before the store applied it).  After any sequence of chat calls sent
\* one after the other the session holds 2N messages, and get_chat_history
\* returns them in the order the calls appended them: user_1, assistant_1,
\* ..., user_N, assistant_N.
C2_TwoPerCall == TwoPerCall(Applied)

\* Two calls appended on a session that had no log, one answered 200 and one
\* 500 after its write; the history is read and holds four messages.
C2_Witness ==
    /\ Answered
    /\ PriorCount(lookup[1].session_id) = 0
    /\ Cardinality(Applied(lookup[1].session_id)) = 2
    /\ \E r \in Applied(lookup[1].session_id) : Failed(r)
    /\ \E r \in Applied(lookup[1].session_id) : Done(r)
    /\ lookup[1].history # None
    /\ Len(lookup[1].history[1].messages) = 4

---------------------------------------------------------------------------
(* C3: a request without session_id *)

\* C3: when a chat request that carries no session_id is answered, the
\* session_id of the reply is an identifier no caller made up and no other
\* request has, and the store then holds exactly one log under it, whose
\* messages are exactly the user's message followed by the assistant's reply.
C3_FreshSession ==
    [][\A r \in Reqs :
          (pc[r] # "done" /\ pc'[r] = "done" /\ req[r].session_id = None) =>
              LET s == reply'[r][1].session_id
              IN  /\ \A q \in Reqs \ {r} : Started(q) => sid[q] # s
                  /\ s \notin {"", "s0", "s1"}
                  /\ Cardinality(Matching(store', s)) = 1
                  /\ RolesContents(StoredIn(store', s)) =
                        <<[role |-> "user", content |-> req[r].message],
                          [role |-> "assistant",
                           content |-> reply'[r][1].response]>>
      ]_vars

\* A request without session_id has been answered while another request
\* was running.
C3_Witness ==
    \E r \in Reqs :
        /\ Done(r)
        /\ req[r].session_id = None
        /\ reply[r][1].session_id = sid[r]
        /\ \E q \in Reqs \ {r} : Started(q)

---------------------------------------------------------------------------
(* C4: a request that fails writes nothing *)

\* C4: a chat request that fails at any step (find_one, the completion call,
\* update_one) is answered 500 and gets no reply, the step that fails leaves
\* the store as it was, a failed request takes no further step, none of its
\* messages is ever in the store, and a message is in the store only after
\* the completion call of its request returned.
C4_NoPartialPersistence ==
    /\ [](\A r \in Reqs :
            /\ Failed(r) =>
                  /\ status[r] = HTTP_500_INTERNAL_SERVER_ERROR
                  /\ reply[r] = None
                  /\ ~InStore(r)
            /\ InStore(r) => response[r] # None /\ Written(r))
    /\ [][\A r \in Reqs :
            /\ (~Failed(r) /\ Failed(r)') =>
                  store' = store /\ appended' = appended
            /\ Failed(r) => Failed(r)'
         ]_vars

---------------------------------------------------------------------------
(* C5: history of a session never written *)

\* C5: get_chat_history of a session to which no chat call ever appended
\* returns None and, unless its find_one raised (500), the endpoint answers
\* 404, which it answers only when None was returned; a log that is returned
\* is never empty; and a lookup leaves the store as it is.
C5_NotFound ==
    /\ [](lookup # None =>
            LET s == lookup[1].session_id
                h == lookup[1].history
                never == \A k \in 1..Len(appended) : appended[k].session_id # s
            IN  /\ never => h = None
                /\ (Answered /\ lookup[1].status
                                    # HTTP_500_INTERNAL_SERVER_ERROR) =>
                      (h = None <=> lookup[1].status = HTTP_404_NOT_FOUND)
                /\ h # None => Len(h[1].messages) > 0)
    /\ [][(lookup = None /\ lookup' # None) => store' = store]_vars

\* The history of the unused session "s0" is asked for while other sessions
\* have logs: 404.
C5_Witness ==
    /\ lookup # None
    /\ lookup[1].session_id = "s0"
    /\ lookup[1].status = HTTP_404_NOT_FOUND
    /\ Len(store) > 0

---------------------------------------------------------------------------
(* C6: the log is append-only *)

\* C6: in every step, every stored document stays where it was, keeps its
\* session_id and created_at, and its messages before the step are a prefix
\* of its messages after it (same role, content and timestamp at every
\* position); so no log is removed and no message is lost or reordered.
C6_AppendOnly ==
    [][/\ Len(store) <= Len(store')
       /\ \A i \in 1..Len(store) :
             /\ store'[i].session_id = store[i].session_id
             /\ IsPrefix(store[i].messages, store'[i].messages)
      ]_vars

\* A request has appended its two messages to a log that held messages.
C6_Witness ==
    \E r \in Reqs : \E i \in 1..Len(store) :
        /\ Done(r)
        /\ Len(store[i].messages) >= 4
        /\ \E j \in 3..Len(store[i].messages) :
              store[i].messages[j].content = Msg(r)

---------------------------------------------------------------------------
(* C7: one document per session *)

\* C7: in every reachable state the store holds at most one ConversationLog
\* document per session_id.
C7_OneLogPerSession ==
    \A s \in SessionIds : Cardinality(Matching(store, s)) <= 1

---------------------------------------------------------------------------
(* C8: concurrent requests on one session *)

\* C8: when two chat requests on the same session have both been answered,
\* the log get_chat_history reads for that session from then on holds the
\* user message and the assistant reply of both.
C8_NoLostAppend ==
    \A s \in SessionIds : \A r1, r2 \in Served(s) :
        r1 # r2 =>
            LET h == GetChatHistory(store, s)
            IN  /\ h # None
                /\ {Msg(r1), Reply(r1), Msg(r2), Reply(r2)}
                      \subseteq Contents(h[1].messages)

---------------------------------------------------------------------------
(* C9: the session identifier *)

Generated == {Uuid(k) : k \in 1..uuids}

\* The identifier of request r is used wherever the request names its session.
UsesSession(r, s) ==
    /\ sid[r] = s
    /\ chat_log[r] # None => chat_log[r][1].session_id = s
    /\ upd[r] # None => upd[r][1].filter = s /\ upd[r][1].session_id = s
    /\ reply[r] # None => reply[r][1].session_id = s
    /\ InStore(r) =>
          \A i \in 1..Len(store) :
              req[r].message \in Contents(store[i].messages)
                  => store[i].session_id = s

\* C9 as amended: a new identifier is generated exactly when the request
\* carries no session_id or an empty one, before the store is first accessed;
\* whenever the request supplies a non-empty session_id, that exact value is
\* used for the history read and for the append, and is echoed in the reply.
C9_SessionIdOpaque ==
    /\ \A r \in Reqs :
          Started(r) =>
              IF req[r].session_id \in {None, Some("")}
              THEN sid[r] \in Generated /\ UsesSession(r, sid[r])
              ELSE UsesSession(r, req[r].session_id[1])
    /\ uuids = Cardinality({r \in Reqs :
                 Started(r) /\ req[r].session_id \in {None, Some("")}})

\* C9 as written: whenever the request supplies a session_id, whatever the
\* string, that exact value is used and echoed, and no identifier is
\* generated.
C9_Original ==
    \A r \in Reqs :
        (Started(r) /\ req[r].session_id # None) =>
            UsesSession(r, req[r].session_id[1])

\* One request with session_id "s1" and one with no usable session_id have
\* both been answered.
C9_Witness ==
    \E r, q \in Reqs :
        /\ Done(r) /\ req[r].session_id = Some("s1")
        /\ reply[r][1].session_id = "s1"
        /\ Done(q) /\ req[q].session_id \in {None, Some("")}
        /\ reply[q][1].session_id \in Generated

---------------------------------------------------------------------------
(* C10: temperature and max_tokens *)

\* C10: the completion call gets the request's temperature and max_tokens
\* whenever they are supplied, and the process-wide default for a parameter
\* only when the request omits it.
C10_SuppliedParams ==
    \A r \in Reqs :
        call[r] # None =>
            /\ call[r][1].temperature =
                  (IF req[r].temperature # None THEN req[r].temperature[1]
                   ELSE DefaultTemperature)
            /\ call[r][1].max_tokens =
                  (IF req[r].max_tokens # None THEN req[r].max_tokens[1]
                   ELSE DefaultMaxTokens)

---------------------------------------------------------------------------
(* C11: the default system message *)

\* The texts that only ever go to the completion call: the default system
\* message, the system prompts and the context pairs of the requests.
PromptContents ==
    {DefaultSystemPrompt.content}
    \cup {req[r].system_prompt[1] :
             r \in {q \in Reqs : req[q].system_prompt # None}}
    \cup UNION {Contents(req[r].context[1]) :
                   r \in {q \in Reqs : req[q].context # None}}

\* C11: the conversation given to the completion call is the conversation
\* process_chat assembled, with the default system message in front exactly
\* when that conversation is empty or its first entry is not a system-role
\* message; so it always begins with a system-role message; and no stored
\* message has role system or the text of the default system message, of a
\* system_prompt or of a context pair.
C11_DefaultSystemMessage ==
    /\ \A r \in Reqs :
          call[r] # None =>
              LET conv == prepared[r]
                  sent == call[r][1].messages
              IN  /\ IF Len(conv) = 0 \/ conv[1].role # "system"
                     THEN /\ Len(sent) = Len(conv) + 1
                          /\ sent[1] = DefaultSystemPrompt
                          /\ \A i \in 1..Len(conv) : sent[i + 1] = conv[i]
                     ELSE sent = conv
                  /\ sent[1].role = "system"
    /\ \A i \in 1..Len(store) : \A j \in 1..Len(store[i].messages) :
          /\ store[i].messages[j].role # "system"
          /\ store[i].messages[j].content \notin PromptContents

\* Two requests have been answered and stored: one whose conversation began
\* with the system message of its context and was sent as it was, one that
\* got the default system message in front.
C11_Witness ==
    \E r, q \in Reqs :
        /\ Done(r) /\ InStore(r)
        /\ req[r].context = Some(ContextSys)
        /\ call[r][1].messages[1].content = "cs"
        /\ call[r][1].messages = prepared[r]
        /\ Done(q) /\ InStore(q)
        /\ call[q][1].messages[1] = DefaultSystemPrompt
        /\ Len(call[q][1].messages) = Len(prepared[q]) + 1

---------------------------------------------------------------------------
(* C13: the list the caller gave generate_response *)

\* C13: after generate_response was called, the list process_chat passed to
\* it holds the same elements as when _prepare_messages returned it.
C13_CallerListUnchanged ==
    \A r \in Reqs : call[r] # None => messages[r] = prepared[r]

---------------------------------------------------------------------------
(* C14: created_at and updated_at *)

\* The request whose update_one the store applies in this step.
Applies(r) == ~Written(r) /\ Written(r)'

\* C14: a document's created_at is the time read by the append that created
\* it and no later append changes it; every append, the creating one and the
\* later ones, sets the document's updated_at to the time that append read.
\* So created_at is never earlier than the stamps of the first two messages,
\* and updated_at never earlier than the stamps of the last two; either can
\* equal them.
C14_CreatedOnceUpdatedAlways ==
    /\ [](\A i \in 1..Len(store) :
            LET d == store[i]
            IN  /\ d.created_at >= d.messages[2].timestamp
                /\ d.updated_at >= d.messages[Len(d.messages)].timestamp
                /\ d.updated_at < now)
    /\ [][/\ \A i \in 1..Len(store) :
                /\ store'[i].created_at = store[i].created_at
                /\ store'[i].messages # store[i].messages =>
                      \E r \in Reqs :
                          /\ Applies(r)
                          /\ store'[i].updated_at = upd[r][1].updated_at
          /\ Len(store') > Len(store) =>
                \E r \in Reqs :
                    /\ Applies(r)
                    /\ store'[Len(store')].created_at = upd[r][1].created_at
                    /\ store'[Len(store')].updated_at = upd[r][1].updated_at
         ]_vars

\* A request created a log, reading all four times in the same microsecond,
\* and a later request appended to it: created_at is still the first
\* request's reading, updated_at the second's.
C14_Witness ==
    \E r, q \in Reqs : \E i \in 1..Len(store) :
        /\ r # q /\ Done(r) /\ Done(q)
        /\ upd[r][1].created_at = upd[r][1].updated_at
        /\ upd[r][1].created_at = upd[r][1].push[1].timestamp
        /\ Len(store[i].messages) = 4
        /\ store[i].messages[1].content = Msg(r)
        /\ store[i].messages[3].content = Msg(q)
        /\ store[i].created_at = upd[r][1].created_at
        /\ store[i].updated_at = upd[q][1].updated_at

---------------------------------------------------------------------------
(* C16: the shape of a stored log *)

\* The user message and the reply of one request, or of one of the exchanges
\* stored before the first request.
OneExchange(a, b) ==
    \/ \E r \in Reqs : a = Msg(r) /\ b = Reply(r)
    \/ \E k \in 1..Len(appended) :
          appended[k].req = 0 /\ a = appended[k].user
                              /\ b = appended[k].assistant

\* C16: in every reachable state, under any interleaving of the requests,
\* every stored log has even length and alternates user, assistant, user,
\* assistant, ...; each user message is immediately followed by the reply of
\* its own request; and no system-role message is stored.
C16_AlternatingRoles ==
    \A i \in 1..Len(store) :
        LET ms == store[i].messages
        IN  /\ Len(ms) % 2 = 0
            /\ Len(ms) > 0
            /\ \A j \in 1..Len(ms) :
                  /\ ms[j].role = (IF j % 2 = 1 THEN "user" ELSE "assistant")
                  /\ j % 2 = 1 => OneExchange(ms[j].content, ms[j + 1].content)

\* Two requests overlapped on a session (the second read the history before
\* the first had created the log) and the log holds both exchanges.
C16_Witness ==
    \E r, q \in Reqs : \E i \in 1..Len(store) :
        /\ r # q /\ Done(r) /\ Done(q)
        /\ chat_log[r] = None /\ chat_log[q] = None
        /\ Len(store[i].messages) = 4
        /\ store[i].messages[1].content = Msg(r)
        /\ store[i].messages[3].content = Msg(q)

---------------------------------------------------------------------------
(* C12: the bounds of a plan *)

IsPlan(o) == o.kind = "returned" /\ o.type = "WebSearchPlan"

\* The completion holds a JSON object that matches the schema of the plan.
MatchesSchema(out) ==
    /\ out.kind = "object"
    /\ out.searches # None
    /\ \A i \in 1..Len(out.searches[1]) : ValidItem(out.searches[1][i])

WithinBounds(l) ==
    /\ MinSearches <= Len(l)
    /\ Len(l) <= MaxPlanSearches
    /\ \A i \in 1..Len(l) : l[i].query <= QueryLimit

\* C12: the planner's plan for a query has between 3 and 6 searches and every
\* query has at most 100 characters: a completion that holds such a plan is
\* returned as the plan, and nothing outside these bounds is returned as a
\* plan.
C12_PlanBounds ==
    plan.stage = "ended" =>
        /\ (MatchesSchema(plan.output) /\ WithinBounds(plan.output.searches[1]))
              => plan.result = Returned("WebSearchPlan", plan.output.searches)
        /\ IsPlan(plan.result) => WithinBounds(plan.result.searches[1])

---------------------------------------------------------------------------
(* C15: output that does not match the schema *)

\* C15: when the model's output does not parse as JSON matching the schema,
\* final_output_as(WebSearchPlan) returns a plan object; it raises nothing.
C15_DefaultPlan ==
    (plan.stage = "ended" /\ ~MatchesSchema(plan.output)) =>
        IsPlan(plan.result)

====
